---- MODULE Spec2Model ----
(***************************************************************************)
(* prethread: a pre-allocated pool of POSIX threads, mutexes and condition *)
(* variables (src/prethd.c).  The model follows the C source function by   *)
(* function.  The pthread calls are modelled by their POSIX contract; a    *)
(* call whose behaviour POSIX leaves undefined is a nondeterministic       *)
(* choice between the outcomes listed at the call.                         *)
(***************************************************************************)
EXTENDS Integers, Sequences, FiniteSets, TLC

\* ------------------------------------------------------------- bounds
MaxThreads == 2          \* largest thread count given to prethd_new
MaxMutexes == 1          \* largest mutex count given to prethd_new
MaxConds   == 1          \* largest condition-variable count given to prethd_new

\* ------------------------------------------------------------- constants
ESRCH == 3               \* the error pthread_join reports for a handle that names no thread

NULL == "NULL"
MainThread == -1         \* the thread that creates the pool (main in README.md)
NoOwner    == -2         \* an unlocked mutex
Garbage    == -3         \* a pthread_t slot malloc returned and nobody wrote
NoRet      == -4         \* no call has returned a value yet

Slots      == 0 .. (MaxThreads - 1)
AllThreads == Slots \cup {MainThread}
MutexArgs  == 0 .. MaxMutexes       \* index arguments, one past the largest valid index
CondArgs   == 0 .. MaxConds
Blocks     == {"pool", "muts", "conds", "threads"}
Funcs      == {"print", "any"}        \* work functions: README.md print, or any calls

VARIABLES
    pool,       \* the caller's pointer (README.md `prethd_t *pool`): NULL or "pool"
    obj,        \* struct pre_threads_t behind the pointer
    heap,       \* the malloc'ed blocks not yet freed
    mutInit,    \* indices of the mutexes initialised and not destroyed
    condInit,   \* indices of the condition variables initialised and not destroyed
    owner,      \* owner[i]: the thread that has mutex i locked, or NoOwner
    cwait,      \* cwait[c]: the threads blocked in pthread_cond_wait on condvar c
    handles,    \* the pthread_t array: handles[i] is Garbage or the thread of slot i
    st,         \* st[t]: "unstarted", "run", "waiting", "woken", "done", "undef"
    pc,         \* pc[t]: position of thread t in its program
    wc, wm,     \* wc[t]: the condvar t is blocked on; wm[t]: the mutex of the Wait t is in
    cs,         \* cs[t]: mutexes t locked with success and has not unlocked
    func,       \* the work function given to prethd_all
    ji, chk,    \* prethd_join: loop index and error accumulator
    ret,        \* what the last call that returns a value returned (a _Bool as 0 or 1),
                \* NoRet before the first such call
    crashed,    \* the process was killed (an invalid memory access)
    req,        \* (history) the arguments of prethd_new, whether a malloc failed, and which
    allRet,     \* (history) what prethd_all returned for the pool, -1 before
    failed,     \* (history) the slots at which pthread_create would report an error
    joinRet,    \* (history) what prethd_join returned for the pool, -1 before
    joinLog,    \* (history) the slots pthread_join was called on, in order
    joinErrs,   \* (history) how many of these pthread_join calls reported an error
    log,        \* README.md: the lines printed, by thread
    printing,   \* README.md: the threads in the middle of their fputc sequence
    bcast       \* (history) threads blocked on a condvar when it was broadcast, still in Wait

vars == <<pool, obj, heap, mutInit, condInit, owner, cwait, handles, st, pc, wc, wm,
          cs, func, ji, chk, ret, crashed, req, allRet, failed, joinRet, joinLog, log,
          printing, bcast, joinErrs>>

poolVars == <<pool, obj, heap, mutInit, condInit, handles>>
syncVars == <<owner, cwait, st, wc, wm, cs, bcast>>
joinVars == <<ji, chk, joinRet, joinLog, joinErrs>>
allVars  == <<allRet, failed>>
demoVars == <<log, printing>>

\* ------------------------------------------------------------- the struct
NoObj == [len |-> 0, mlen |-> 0, clen |-> 0, muts |-> NULL, conds |-> NULL, threads |-> NULL]

Live == "pool" \in heap

Init ==
    /\ pool = NULL
    /\ obj = NoObj
    /\ heap = {}
    /\ mutInit = {}
    /\ condInit = {}
    /\ owner = <<>>
    /\ cwait = <<>>
    /\ handles = <<>>
    /\ st = [t \in AllThreads |-> IF t = MainThread THEN "run" ELSE "unstarted"]
    /\ pc = [t \in AllThreads |-> IF t = MainThread THEN "m_init" ELSE "none"]
    /\ wc = [t \in AllThreads |-> 0]
    /\ wm = [t \in AllThreads |-> 0]
    /\ cs = [t \in AllThreads |-> {}]
    /\ func = "none"
    /\ ji = 0
    /\ chk = 0
    /\ ret = NoRet
    /\ crashed = FALSE
    /\ req = [th |-> 0, mut |-> 0, cond |-> 0, oom |-> FALSE, lost |-> {}]
    /\ allRet = -1
    /\ failed = {}
    /\ joinRet = -1
    /\ joinLog = <<>>
    /\ joinErrs = 0
    /\ log = <<>>
    /\ printing = {}
    /\ bcast = {}

\* ------------------------------------------------------------- prethd_new
\* init_muts / init_conds: NULL for n = 0 or when malloc fails, else the block.
init_muts(n, oom) == IF n = 0 THEN NULL ELSE IF "muts" \in oom THEN NULL ELSE "muts"

init_conds(n, oom) == IF n = 0 THEN NULL ELSE IF "conds" \in oom THEN NULL ELSE "conds"

\* The indices pthread_mutex_init / pthread_cond_init ran on.
InitSet(arr, n) == IF arr = NULL THEN {} ELSE 0 .. (n - 1)

des_mutsLeak(h, muts, n) == h

\* des_muts / des_conds: destroy every element and free the array, unless NULL or n = 0.
des_muts(h, muts, n) == IF muts # NULL /\ n > 0 THEN h \ {muts} ELSE h

des_conds(h, conds, n) == IF conds # NULL /\ n > 0 THEN h \ {conds} ELSE h

DestroyedSet(arr, n, inited) == IF arr # NULL /\ n > 0 THEN inited \ (0 .. (n - 1)) ELSE inited

\* The struct prethd_new fills in before it allocates the thread array.
NewObjBad(th, mut, cond, oom) ==
    [len |-> th, mlen |-> cond, clen |-> mut,
     muts |-> init_muts(mut, oom), conds |-> init_conds(cond, oom), threads |-> NULL]

NewObj(th, mut, cond, oom) ==
    [len |-> th, mlen |-> mut, clen |-> cond,
     muts |-> init_muts(mut, oom), conds |-> init_conds(cond, oom), threads |-> NULL]

\* Whether some malloc that prethd_new reached returned NULL.
OomHit(th, mut, cond, oom) ==
    /\ th # 0
    /\ \/ "pool" \in oom
       \/ "pool" \notin oom /\ mut > 0 /\ "muts" \in oom
       \/ "pool" \notin oom /\ cond > 0 /\ "conds" \in oom
       \/ "pool" \notin oom /\ "threads" \in oom

\* The mallocs that prethd_new reached and that returned NULL.
OomAt(th, mut, cond, oom) ==
    IF th = 0 THEN {}
    ELSE IF "pool" \in oom THEN {"pool"}
    ELSE oom \cap ({"threads"} \cup (IF mut > 0 THEN {"muts"} ELSE {})
                              \cup (IF cond > 0 THEN {"conds"} ELSE {}))

prethd_new(th, mut, cond, oom) ==
    /\ pc[MainThread] = "m_init"
    /\ req' = [th |-> th, mut |-> mut, cond |-> cond, oom |-> OomHit(th, mut, cond, oom),
             lost |-> OomAt(th, mut, cond, oom)]
    /\ IF th = 0 \/ "pool" \in oom
       THEN /\ pool' = NULL
            /\ UNCHANGED <<obj, heap, mutInit, condInit, owner, cwait, handles>>
            /\ pc' = [pc EXCEPT ![MainThread] = "m_nopool"]
       ELSE LET o == NewObj(th, mut, cond, oom)
                h == {"pool"} \cup ({o.muts, o.conds} \ {NULL})
            IN  IF "threads" \in oom
                THEN /\ pool' = NULL
                     /\ obj' = NoObj
                     /\ heap' = des_conds(des_muts(h, o.muts, mut), o.conds, cond) \ {"pool"}
                     /\ mutInit' = DestroyedSet(o.muts, mut, InitSet(o.muts, mut))
                     /\ condInit' = DestroyedSet(o.conds, cond, InitSet(o.conds, cond))
                     /\ UNCHANGED <<owner, cwait, handles>>
                     /\ pc' = [pc EXCEPT ![MainThread] = "m_nopool"]
                ELSE /\ pool' = "pool"
                     /\ obj' = [o EXCEPT !.threads = "threads"]
                     /\ heap' = h \cup {"threads"}
                     /\ mutInit' = InitSet(o.muts, mut)
                     /\ condInit' = InitSet(o.conds, cond)
                     /\ owner' = [i \in InitSet(o.muts, mut) |-> NoOwner]
                     /\ cwait' = [c \in InitSet(o.conds, cond) |-> {}]
                     /\ handles' = [i \in 0 .. (th - 1) |-> Garbage]
                     /\ pc' = [pc EXCEPT ![MainThread] = "m_new"]
    /\ UNCHANGED <<st, wc, wm, cs, bcast, func, ret, crashed, allVars, joinVars, demoVars>>

\* ------------------------------------------------------------- accessors
AbsentNever(p) == FALSE

\* th == NULL: the test every function makes before it reads the struct.
Absent(p) == p = NULL

prethd_size(p) == IF p = NULL THEN 0 ELSE obj.len

prethd_mutex_size(p) == IF p = NULL THEN 0 ELSE obj.mlen

prethd_cond_size(p) == IF p = NULL THEN 0 ELSE obj.clen

\* ------------------------------------------------------------- programs
\* Where main is between two calls.  Main creates, starts, joins and frees the
\* pool and signals and broadcasts its condition variables (spec.md section 8);
\* with a NULL pointer it may make any call.  The workers lock, unlock and wait.
MainAny == {"m_init", "m_nopool", "m_new", "m_started", "m_joined", "m_leaked"}

MainOps == {"all", "join", "free", "signal", "broad"}

\* The first position of a work function.
StartPc(fn) ==
    CASE fn = "print" -> "p_lock"
      [] fn = "waiter" -> "w_lock"
      [] OTHER -> "any"

ScriptOpNoUnlock(p) ==
    CASE p \in {"p_lock", "w_lock"} -> "lock"
      [] p = "w_unlock" -> "unlock"
      [] p = "w_wait" -> "wait"
      [] p \in {"p_unlock", "p_ret", "w_ret"} -> "return"
      [] OTHER -> "none"

\* The call a scripted work function makes at a position: README.md print is
\* lock(0); fputc...; unlock(0); return, and the waiter is lock(0); wait(0, 0);
\* unlock(0); return.
ScriptOp(p) ==
    CASE p \in {"p_lock", "w_lock"} -> "lock"
      [] p \in {"p_unlock", "w_unlock"} -> "unlock"
      [] p = "w_wait" -> "wait"
      [] p \in {"p_ret", "w_ret"} -> "return"
      [] OTHER -> "none"

\* The position after the call at pc[t] returns (the return value is ignored, as
\* README.md does).
After(t) ==
    CASE pc[t] = "p_lock" -> "p_begin"
      [] pc[t] = "p_unlock" -> "p_ret"
      [] pc[t] = "w_lock" -> "w_wait"
      [] pc[t] = "w_wait" -> "w_unlock"
      [] pc[t] = "w_unlock" -> "w_ret"
      [] OTHER -> pc[t]

\* Thread t is running and its program makes the call op(i, c) now.
May(t, op, i, c) ==
    /\ ~crashed
    /\ st[t] = "run"
    /\ \/ pc[t] = "any"
       \/ pc[t] \in MainAny /\ (pool = NULL \/ op \in MainOps)
       \/ ScriptOp(pc[t]) = op /\ i = 0 /\ c = 0

\* prethd_free is under way: part of the pool is destroyed already.
Freeing == pc[MainThread] = "m_hung"

\* The pointer the thread passes is NULL or points to the pool (not to one that is
\* freed or being freed).
Usable == pool = NULL \/ (Live /\ ~Freeing)

\* ------------------------------------------------------------- prethd_all
RECURSIVE AllLoopContinue(_, _, _, _)
AllLoopContinue(i, n, fails, acc) ==
    IF i >= n THEN acc
    ELSE IF i \in fails THEN AllLoopContinue(i + 1, n, fails, acc)
    ELSE AllLoopContinue(i + 1, n, fails, [ret |-> acc.ret + 1, made |-> acc.made \cup {i}])

\* The for loop of prethd_all from index i: fails holds the slots at which
\* pthread_create reports an error; acc is [ret, made] so far.
RECURSIVE AllLoop(_, _, _, _)
AllLoop(i, n, fails, acc) ==
    IF i >= n THEN acc
    ELSE IF i \in fails THEN acc
    ELSE AllLoop(i + 1, n, fails, [ret |-> acc.ret + 1, made |-> acc.made \cup {i}])

prethd_all(fn, fails) ==
    /\ May(MainThread, "all", 0, 0)
    /\ pc[MainThread] \in {"m_init", "m_nopool", "m_new"}
    /\ Usable
    /\ IF Absent(pool)
       THEN /\ ret' = 0
            /\ UNCHANGED <<handles, st, pc, func, allVars>>
       ELSE LET r == AllLoop(0, obj.len, fails, [ret |-> 0, made |-> {}])
            IN  /\ ret' = r.ret
                /\ allRet' = r.ret
                /\ failed' = fails \cap (0 .. (obj.len - 1))
                /\ handles' = [i \in DOMAIN handles |-> IF i \in r.made THEN i ELSE handles[i]]
                /\ st' = [t \in AllThreads |-> IF t \in r.made THEN "run" ELSE st[t]]
                /\ pc' = [t \in AllThreads |->
                            IF t \in r.made THEN StartPc(fn)
                            ELSE IF t = MainThread THEN "m_started" ELSE pc[t]]
                /\ func' = fn
    /\ UNCHANGED <<pool, obj, heap, mutInit, condInit, owner, cwait, wc, wm, cs, bcast,
                   crashed, req, joinVars, demoVars>>

\* ------------------------------------------------------------- lock / unlock
BadMutexOffByOne(i) == pool = NULL \/ i > obj.mlen

\* th == NULL || i >= th->mlen
BadMutex(i) == Absent(pool) \/ i >= obj.mlen

BadCondOffByOne(c) == pool = NULL \/ c > obj.clen

\* th == NULL || c >= th->clen
BadCond(c) == Absent(pool) \/ c >= obj.clen

\* th->muts (or th->conds) is NULL although the count is not 0: the call
\* dereferences an address next to 0.  The access is invalid: the process is
\* killed, or the library reports an error; nothing is locked or woken.
NullDeref(t) ==
    \/ /\ crashed' = TRUE
       /\ UNCHANGED <<ret, pc>>
    \/ /\ ret' = 0
       /\ pc' = [pc EXCEPT ![t] = After(t)]
       /\ UNCHANGED crashed

MutexFreeAlways(i) == TRUE

\* pthread_mutex_lock returns once the mutex is not locked.
MutexFree(i) == owner[i] = NoOwner

PrethdLock(t, i) ==
    /\ May(t, "lock", i, 0)
    /\ Usable
    /\ IF BadMutex(i)
       THEN /\ ret' = 0
            /\ pc' = [pc EXCEPT ![t] = After(t)]
            /\ UNCHANGED <<owner, cs, crashed>>
       ELSE IF obj.muts = NULL
       THEN /\ NullDeref(t)
            /\ UNCHANGED <<owner, cs>>
       ELSE /\ i \notin cs[t]
            /\ MutexFree(i)
            /\ owner' = [owner EXCEPT ![i] = t]
            /\ cs' = [cs EXCEPT ![t] = @ \cup {i}]
            /\ ret' = 1
            /\ pc' = [pc EXCEPT ![t] = After(t)]
            /\ UNCHANGED crashed
    /\ UNCHANGED <<poolVars, cwait, st, wc, wm, bcast, func, req, allVars, joinVars, demoVars>>

PrethdUnlock(t, i) ==
    /\ May(t, "unlock", i, 0)
    /\ Usable
    /\ IF BadMutex(i)
       THEN /\ ret' = 0
            /\ pc' = [pc EXCEPT ![t] = After(t)]
            /\ UNCHANGED <<owner, cs, crashed>>
       ELSE IF obj.muts = NULL
       THEN /\ NullDeref(t)
            /\ UNCHANGED <<owner, cs>>
       ELSE /\ i \in cs[t]
            /\ owner' = [owner EXCEPT ![i] = NoOwner]
            /\ cs' = [cs EXCEPT ![t] = @ \ {i}]
            /\ ret' = 1
            /\ pc' = [pc EXCEPT ![t] = After(t)]
            /\ UNCHANGED crashed
    /\ UNCHANGED <<poolVars, cwait, st, wc, wm, bcast, func, req, allVars, joinVars, demoVars>>

\* ------------------------------------------------------------- wait
WaitQueueLate(t, c) == cwait[c]

\* The threads blocked on condvar c once t has blocked on it.
WaitQueue(t, c) == cwait[c] \cup {t}

\* pthread_cond_wait, first half: release the mutex and block on the condvar.
PrethdWait(t, c, m) ==
    /\ May(t, "wait", m, c)
    /\ Usable
    /\ IF BadCond(c) \/ BadMutex(m)
       THEN /\ ret' = 0
            /\ pc' = [pc EXCEPT ![t] = After(t)]
            /\ UNCHANGED <<owner, cs, cwait, st, wc, wm, crashed>>
       ELSE IF obj.muts = NULL \/ obj.conds = NULL
       THEN /\ NullDeref(t)
            /\ UNCHANGED <<owner, cs, cwait, st, wc, wm>>
       ELSE /\ m \in cs[t]
            /\ owner' = [owner EXCEPT ![m] = NoOwner]
            /\ cs' = [cs EXCEPT ![t] = @ \ {m}]
            /\ cwait' = [cwait EXCEPT ![c] = WaitQueue(t, c)]
            /\ st' = [st EXCEPT ![t] = "waiting"]
            /\ wc' = [wc EXCEPT ![t] = c]
            /\ wm' = [wm EXCEPT ![t] = m]
            /\ UNCHANGED <<ret, pc, crashed>>
    /\ UNCHANGED <<poolVars, bcast, func, req, allVars, joinVars, demoVars>>

\* pthread_cond_wait, second half: a woken thread takes the mutex again and the
\* call returns 0.
WaitReturn(t) ==
    /\ ~crashed
    /\ Live /\ ~Freeing
    /\ st[t] = "woken"
    /\ MutexFree(wm[t])
    /\ owner' = [owner EXCEPT ![wm[t]] = t]
    /\ cs' = [cs EXCEPT ![t] = @ \cup {wm[t]}]
    /\ st' = [st EXCEPT ![t] = "run"]
    /\ wm' = [wm EXCEPT ![t] = 0]
    /\ bcast' = bcast \ {t}
    /\ ret' = 1
    /\ pc' = [pc EXCEPT ![t] = After(t)]
    /\ UNCHANGED <<poolVars, cwait, wc, crashed, func, req, allVars, joinVars, demoVars>>

\* The threads in W stop being blocked on condvar c.
Wake(W, c) ==
    /\ st' = [t \in AllThreads |-> IF t \in W THEN "woken" ELSE st[t]]
    /\ wc' = [t \in AllThreads |-> IF t \in W THEN 0 ELSE wc[t]]
    /\ cwait' = [cwait EXCEPT ![c] = @ \ W]

\* POSIX: pthread_cond_wait may return without any signal (a spurious wake-up).
Spurious(t) ==
    /\ ~crashed
    /\ Live /\ ~Freeing
    /\ st[t] = "waiting"
    /\ Wake({t}, wc[t])
    /\ UNCHANGED <<poolVars, owner, wm, cs, bcast, pc, ret, crashed, func, req, allVars,
                   joinVars, demoVars>>

\* ------------------------------------------------------------- signal / broadcast
SignalWakesNone(c) == {{}}

SignalWakesAnyone(c) == SUBSET {t \in Slots : st[t] \in {"run", "waiting"}}

\* POSIX: pthread_cond_signal unblocks at least one of the threads blocked on the
\* condition variable, if any is blocked.
SignalWakes(c) == IF cwait[c] = {} THEN {{}} ELSE (SUBSET cwait[c]) \ {{}}

PrethdSignal(t, c) ==
    /\ May(t, "signal", 0, c)
    /\ Usable
    /\ IF BadCond(c)
       THEN /\ ret' = 0
            /\ UNCHANGED <<cwait, st, wc, crashed, pc>>
       ELSE IF obj.conds = NULL
       THEN /\ NullDeref(t)
            /\ UNCHANGED <<cwait, st, wc>>
       ELSE /\ \E W \in SignalWakes(c) : Wake(W, c)
            /\ ret' = 1
            /\ UNCHANGED <<crashed, pc>>
    /\ UNCHANGED <<poolVars, owner, wm, cs, bcast, func, req, allVars, joinVars, demoVars>>

BroadWakesOne(c) == IF cwait[c] = {} THEN {} ELSE {CHOOSE t \in cwait[c] : TRUE}

\* POSIX: pthread_cond_broadcast unblocks all threads blocked on the condvar.
BroadWakes(c) == cwait[c]

PrethdBroad(t, c) ==
    /\ May(t, "broad", 0, c)
    /\ Usable
    /\ IF BadCond(c)
       THEN /\ ret' = 0
            /\ UNCHANGED <<cwait, st, wc, bcast, crashed, pc>>
       ELSE IF obj.conds = NULL
       THEN /\ NullDeref(t)
            /\ UNCHANGED <<cwait, st, wc, bcast>>
       ELSE /\ Wake(BroadWakes(c), c)
            /\ bcast' = bcast \cup cwait[c]
            /\ ret' = 1
            /\ UNCHANGED <<crashed, pc>>
    /\ UNCHANGED <<poolVars, owner, wm, cs, func, req, allVars, joinVars, demoVars>>

\* ------------------------------------------------------------- work functions
\* The work function returns: the thread terminates (what it holds stays locked).
Return(t) ==
    /\ t \in Slots
    /\ May(t, "return", 0, 0)
    /\ st' = [st EXCEPT ![t] = "done"]
    /\ pc' = [pc EXCEPT ![t] = "done"]
    /\ UNCHANGED <<poolVars, owner, cwait, wc, wm, cs, bcast, func, ret, crashed, req,
                   allVars, joinVars, demoVars>>

\* README.md print: the first fputc of the line.
PrintBegin(t) ==
    /\ ~crashed
    /\ st[t] = "run"
    /\ pc[t] = "p_begin"
    /\ printing' = printing \cup {t}
    /\ pc' = [pc EXCEPT ![t] = "p_end"]
    /\ UNCHANGED <<poolVars, syncVars, func, ret, crashed, req, allVars, joinVars, log>>

\* README.md print: the last fputc of the line.
PrintEnd(t) ==
    /\ ~crashed
    /\ st[t] = "run"
    /\ pc[t] = "p_end"
    /\ printing' = printing \ {t}
    /\ log' = Append(log, t)
    /\ pc' = [pc EXCEPT ![t] = "p_unlock"]
    /\ UNCHANGED <<poolVars, syncVars, func, ret, crashed, req, allVars, joinVars>>

\* A worker calls the pool after prethd_free released it: the struct is read from
\* freed memory.  The process is killed, or the thread goes on in a way the
\* source does not determine ("undef": it is not followed further).
UseAfterFree(t) ==
    /\ ~crashed
    /\ t \in Slots
    /\ ~Usable
    /\ st[t] = "run"
    /\ ScriptOp(pc[t]) # "return"
    /\ pc[t] \notin {"p_begin", "p_end"}
    /\ \/ /\ crashed' = TRUE
          /\ UNCHANGED <<st, pc>>
       \/ /\ st' = [st EXCEPT ![t] = "undef"]
          /\ pc' = [pc EXCEPT ![t] = "undef"]
          /\ UNCHANGED crashed
    /\ UNCHANGED <<poolVars, owner, cwait, wc, wm, cs, bcast, func, ret, req, allVars,
                   joinVars, demoVars>>

\* ------------------------------------------------------------- prethd_join
TerminatedAlways(h) == TRUE

\* pthread_join returns once the thread has terminated.
Terminated(h) == st[h] = "done"

JoinResult(c) == IF c = 0 THEN 1 ELSE 0

\* Entry of prethd_join (into "m_join") or of prethd_join_free (into "m_jfree").
JoinBegin(mode) ==
    /\ May(MainThread, "join", 0, 0)
    /\ pc[MainThread] \in {"m_init", "m_nopool", "m_new", "m_started"}
    /\ Usable
    /\ IF Absent(pool)
       THEN /\ ret' = IF mode = "m_join" THEN 0 ELSE ret
            /\ UNCHANGED <<pc, ji, chk>>
       ELSE /\ pc' = [pc EXCEPT ![MainThread] = mode]
            /\ ji' = 0
            /\ chk' = 0
            /\ UNCHANGED ret
    /\ UNCHANGED <<poolVars, syncVars, func, crashed, req, allVars, joinRet, joinLog,
                   joinErrs, demoVars>>

JoinNextFailFast(i, c) == IF c # 0 THEN obj.len ELSE i + 1

\* for (size_t i = 0; i < th->len; i++): the loop has no break, whatever chk is.
JoinNext(i, c) == i + 1

\* One round of the loop: chk += pthread_join(th->threads[i], NULL).  A slot
\* prethd_all did not start holds whatever malloc returned: the call kills the
\* process, or reports ESRCH, or reports 0.
JoinSlot ==
    /\ ~crashed
    /\ pc[MainThread] \in {"m_join", "m_jfree"}
    /\ ji < obj.len
    /\ joinLog' = Append(joinLog, ji)
    /\ IF handles[ji] # Garbage
       THEN /\ Terminated(handles[ji])
            /\ ji' = JoinNext(ji, chk')
            /\ UNCHANGED <<chk, crashed, joinErrs>>
       ELSE \/ /\ crashed' = TRUE
               /\ UNCHANGED <<chk, ji, joinErrs>>
            \/ /\ chk' \in {chk + ESRCH, chk}
               /\ joinErrs' = IF chk' = chk THEN joinErrs ELSE joinErrs + 1
               /\ ji' = JoinNext(ji, chk')
               /\ UNCHANGED crashed
    /\ UNCHANGED <<poolVars, syncVars, pc, func, ret, req, allVars, joinRet, demoVars>>

\* prethd_join: return chk == 0.
JoinEnd ==
    /\ ~crashed
    /\ pc[MainThread] = "m_join"
    /\ ji = obj.len
    /\ ret' = JoinResult(chk)
    /\ joinRet' = JoinResult(chk)
    /\ pc' = [pc EXCEPT ![MainThread] = "m_joined"]
    /\ UNCHANGED <<poolVars, syncVars, func, crashed, req, allVars, ji, chk, joinLog,
                   joinErrs, demoVars>>

\* ------------------------------------------------------------- prethd_free
FreeBodyResetsPointer ==
    /\ heap' = {}
    /\ mutInit' = {}
    /\ condInit' = {}
    /\ obj' = NoObj
    /\ owner' = <<>>
    /\ cwait' = <<>>
    /\ handles' = <<>>
    /\ pool' = NULL

\* des_muts; des_conds; free(th->threads); free(th).  The caller's pointer keeps
\* its value.
FreeBody ==
    /\ heap' = (des_conds(des_muts(heap, obj.muts, obj.mlen), obj.conds, obj.clen)
                  \ {obj.threads}) \ {"pool"}
    /\ mutInit' = DestroyedSet(obj.muts, obj.mlen, mutInit)
    /\ condInit' = DestroyedSet(obj.conds, obj.clen, condInit)
    /\ obj' = NoObj
    /\ owner' = <<>>
    /\ cwait' = <<>>
    /\ handles' = <<>>
    /\ UNCHANGED pool

\* Some thread is blocked on a condition variable of the pool.
CondBusy == \E c \in DOMAIN cwait : cwait[c] # {}

\* prethd_free.  Destroying a condition variable on which threads are blocked is
\* undefined in POSIX: pthread_cond_destroy returns, or (glibc) it blocks until
\* the waiters have left, after des_muts has run.
prethd_free ==
    /\ May(MainThread, "free", 0, 0)
    /\ Usable
    /\ IF Absent(pool)
       THEN UNCHANGED <<poolVars, owner, cwait, pc>>
       ELSE \/ /\ FreeBody
               /\ pc' = [pc EXCEPT ![MainThread] = "m_freed"]
            \/ /\ CondBusy
               /\ heap' = des_muts(heap, obj.muts, obj.mlen)
               /\ mutInit' = DestroyedSet(obj.muts, obj.mlen, mutInit)
               /\ pc' = [pc EXCEPT ![MainThread] = "m_hung"]
               /\ UNCHANGED <<pool, obj, condInit, handles, owner, cwait>>
    /\ UNCHANGED <<st, wc, wm, cs, bcast, func, ret, crashed, req, allVars, joinVars, demoVars>>

JoinFreeFreesAlways(c) == TRUE

\* prethd_join_free: if (prethd_join(th)) { ... }.
JoinFreeFrees(c) == JoinResult(c) = 1

\* prethd_join_free after the loop of prethd_join.
JoinFreeEnd ==
    /\ ~crashed
    /\ pc[MainThread] = "m_jfree"
    /\ ji = obj.len
    /\ joinRet' = JoinResult(chk)
    /\ IF JoinFreeFrees(chk)
       THEN /\ FreeBody
            /\ pc' = [pc EXCEPT ![MainThread] = "m_freed"]
       ELSE /\ pc' = [pc EXCEPT ![MainThread] = "m_leaked"]
            /\ UNCHANGED <<poolVars, owner, cwait>>
    /\ UNCHANGED <<st, wc, wm, cs, bcast, func, ret, crashed, req, allVars, ji, chk, joinLog,
                   joinErrs, demoVars>>

\* ------------------------------------------------------------- specification
\* Main starts the pool; print is started on a pool without condition variables,
\* as README.md main does (NUM_COND = 0).
StartAll(fn, fails) ==
    /\ fn = "print" => obj.clen = 0
    /\ prethd_all(fn, fails)

Next ==
    \/ \E th \in 0 .. MaxThreads, mut \in 0 .. MaxMutexes, cond \in 0 .. MaxConds,
          oom \in SUBSET Blocks : prethd_new(th, mut, cond, oom)
    \/ \E fn \in Funcs, fails \in SUBSET Slots : StartAll(fn, fails)
    \/ \E t \in AllThreads, i \in MutexArgs : PrethdLock(t, i)
    \/ \E t \in AllThreads, i \in MutexArgs : PrethdUnlock(t, i)
    \/ \E t \in AllThreads, c \in CondArgs, m \in MutexArgs : PrethdWait(t, c, m)
    \/ \E t \in AllThreads : WaitReturn(t)
    \/ \E t \in AllThreads : Spurious(t)
    \/ \E t \in AllThreads, c \in CondArgs : PrethdSignal(t, c)
    \/ \E t \in AllThreads, c \in CondArgs : PrethdBroad(t, c)
    \/ \E t \in Slots : Return(t)
    \/ \E t \in Slots : PrintBegin(t)
    \/ \E t \in Slots : PrintEnd(t)
    \/ \E t \in Slots : UseAfterFree(t)
    \/ \E mode \in {"m_join", "m_jfree"} : JoinBegin(mode)
    \/ JoinSlot
    \/ JoinEnd
    \/ JoinFreeEnd
    \/ prethd_free

Spec == Init /\ [][Next]_vars

\* ------------------------------------------------------------- broadcast scenario
\* spec.md section 8: N workers run lock(0); wait(0, 0); unlock(0); return on a pool
\* with one mutex and one condvar, main signals and broadcasts, then joins.
\* No allocation and no pthread_create fails.
WorkerStep(t) ==
    \/ PrethdLock(t, 0)
    \/ PrethdWait(t, 0, 0)
    \/ WaitReturn(t)
    \/ PrethdUnlock(t, 0)
    \/ Return(t)

NextB ==
    \/ \E th \in 1 .. MaxThreads : prethd_new(th, 1, 1, {})
    \/ prethd_all("waiter", {})
    \/ pc[MainThread] = "m_started" /\ PrethdSignal(MainThread, 0)
    \/ pc[MainThread] = "m_started" /\ PrethdBroad(MainThread, 0)
    \/ pc[MainThread] = "m_started" /\ JoinBegin("m_join")
    \/ JoinSlot
    \/ JoinEnd
    \/ \E t \in Slots : Spurious(t)
    \/ \E t \in Slots : WorkerStep(t)

\* Fair scheduling: a worker that can take a step eventually takes one.
SpecB == Init /\ [][NextB]_vars /\ \A t \in Slots : WF_vars(WorkerStep(t))

\* ------------------------------------------------------------- README.md
\* README.md print: lock(0); the fputc sequence; unlock(0); return.
PrintStep(t) ==
    \/ PrethdLock(t, 0)
    \/ PrintBegin(t)
    \/ PrintEnd(t)
    \/ PrethdUnlock(t, 0)
    \/ Return(t)

\* README.md main: prethd_new(NUM_TH, NUM_MUT, NUM_COND) with one mutex (and any
\* number of condvars, which print does not use); prethd_all(pool, print, NULL);
\* prethd_join_free(pool).  No malloc and no pthread_create fails.
MainStep ==
    \/ \E th \in 1 .. MaxThreads, cond \in 0 .. MaxConds : prethd_new(th, 1, cond, {})
    \/ pc[MainThread] = "m_new" /\ prethd_all("print", {})
    \/ pc[MainThread] = "m_started" /\ JoinBegin("m_jfree")
    \/ JoinSlot
    \/ JoinFreeEnd

NextR == MainStep \/ \E t \in Slots : PrintStep(t)

\* Fair scheduling: a thread that can take a step eventually takes one.
SpecR ==
    /\ Init
    /\ [][NextR]_vars
    /\ WF_vars(MainStep)
    /\ \A t \in Slots : WF_vars(PrintStep(t))

\* ------------------------------------------------------------- waiter scenario
\* Any pool prethd_new can return, with the workers of the broadcast scenario: on
\* a pool without mutex 0 or condvar 0 their calls take the error return.  Main
\* signals and broadcasts any index and joins or frees the pool at any time.
NextE ==
    \/ \E th \in 0 .. MaxThreads, mut \in 0 .. MaxMutexes, cond \in 0 .. MaxConds,
          oom \in SUBSET Blocks : prethd_new(th, mut, cond, oom)
    \/ \E fails \in SUBSET Slots : prethd_all("waiter", fails)
    \/ \E c \in CondArgs : PrethdSignal(MainThread, c)
    \/ \E c \in CondArgs : PrethdBroad(MainThread, c)
    \/ \E mode \in {"m_join", "m_jfree"} : JoinBegin(mode)
    \/ JoinSlot
    \/ JoinEnd
    \/ JoinFreeEnd
    \/ prethd_free
    \/ \E t \in Slots : Spurious(t)
    \/ \E t \in Slots : WorkerStep(t)
    \/ \E t \in Slots : UseAfterFree(t)

SpecE == Init /\ [][NextE]_vars

\* ------------------------------------------------------------- claims
Done(t) == st[t] \in {"unstarted", "done"}

Constructed == pc[MainThread] # "m_init"

\* C1: prethd_new(0, m, c) returns NULL; with th >= 1 and no malloc failing it
\* returns a pool; and as long as the pool is not freed the three size accessors
\* return the counts prethd_new was given.
C1_Sizes ==
    /\ Constructed /\ req.th = 0 => pool = NULL
    /\ Constructed /\ req.th >= 1 /\ ~req.oom => pool # NULL
    /\ Live => /\ prethd_size(pool) = req.th
               /\ prethd_mutex_size(pool) = req.mut
               /\ prethd_cond_size(pool) = req.cond

C1_Witness ==
    /\ Live
    /\ pc[MainThread] = "m_joined"
    /\ joinRet = 1
    /\ \E t \in Slots : cs[t] # {}
    /\ prethd_size(pool) = MaxThreads
    /\ prethd_mutex_size(pool) = MaxMutexes
    /\ prethd_cond_size(pool) = MaxConds

\* C2: construction is all-or-nothing: when a malloc of prethd_new fails no pool
\* is returned, and a pool never has a non-zero mutex (condvar) count with a NULL
\* mutex (condvar) array.
C2_AllOrNothing ==
    /\ Constructed /\ req.oom => pool = NULL
    /\ Live => /\ obj.mlen > 0 => obj.muts # NULL
               /\ obj.clen > 0 => obj.conds # NULL

\* C3: at most one thread is between a successful Lock(i) and its Unlock(i); with
\* the README.md work function on a pool whose mutex 0 exists, no two threads are
\* inside their fputc sequence at once; and once Join has returned the log holds
\* one line of each started thread and nothing else.
C3_MutualExclusion ==
    /\ Live /\ ~Freeing =>
          \A i \in DOMAIN owner : Cardinality({t \in AllThreads : i \in cs[t]}) <= 1
    /\ Live /\ ~Freeing /\ func = "print" /\ obj.mlen >= 1 /\ obj.muts # NULL =>
          Cardinality(printing) <= 1
    /\ func = "print" /\ joinRet # -1 =>
          /\ Len(log) = allRet
          /\ \A t \in Slots : t < allRet => \E k \in 1 .. Len(log) : log[k] = t

C3_Witness ==
    /\ func = "print"
    /\ req.mut = 1 /\ ~req.oom
    /\ joinRet = 1
    /\ allRet = MaxThreads
    /\ Len(log) = MaxThreads

\* C4: whenever prethd_join has returned true, every thread prethd_all started
\* has terminated.
C4_JoinCorrect == joinRet = 1 => \A t \in Slots : Done(t)

C4_Witness ==
    /\ joinRet = 1
    /\ allRet = MaxThreads
    /\ \A t \in Slots : st[t] = "done"

\* C5: prethd_join calls pthread_join only on slots that prethd_all started: after
\* prethd_all returned k, only slots 0 .. k-1 are joined.
C5_JoinOnlyStarted ==
    allRet # -1 =>
        \A k \in 1 .. Len(joinLog) : joinLog[k] < allRet /\ st[joinLog[k]] # "unstarted"

\* The least member of a non-empty set of numbers.
Least(S) == CHOOSE x \in S : \A y \in S : x <= y

\* C6: prethd_all returns k <= thread count; exactly the slots 0 .. k-1 are
\* started; k is the first slot at which pthread_create fails, and the thread
\* count when none fails.
C6_StartAll ==
    allRet # -1 /\ pool # NULL =>
        /\ allRet <= req.th
        /\ \A t \in Slots : (st[t] # "unstarted") <=> (t < allRet)
        /\ allRet = Least(failed \cup {req.th})

C6_Witness ==
    /\ allRet = 1
    /\ req.th = MaxThreads
    /\ failed = {1}
    /\ st[0] = "done"
    /\ st[1] = "unstarted"

\* A step in which prethd_join_free returns.
JoinFreeReturns == pc[MainThread] = "m_jfree" /\ pc'[MainThread] # "m_jfree"

\* C7: prethd_join_free frees the pool exactly when its prethd_join reports
\* success; when it reports failure the pool, its arrays and its primitives are
\* left as they were.
C7_JoinFree ==
    [][JoinFreeReturns =>
          /\ joinRet' = 1 <=> ~Live'
          /\ joinRet' = 1 => heap' = {} /\ mutInit' = {} /\ condInit' = {}
          /\ joinRet' # 1 => UNCHANGED <<pool, obj, heap, mutInit, condInit, owner,
                                          cwait, handles>>]_vars

C7_Witness ==
    /\ pc[MainThread] = "m_leaked"
    /\ joinRet = 0
    /\ Live
    /\ mutInit # {}
    /\ condInit # {}

\* A step in which main calls prethd_free on a pool.
FreeNowCalled ==
    /\ pc[MainThread] \in MainAny
    /\ Live
    /\ pc'[MainThread] \in {"m_freed", "m_hung"}

\* C8: prethd_free on a valid pool completes at once, whatever the workers are
\* doing: after the call every primitive is destroyed and every block released.
C8_FreeNowCompletes ==
    [][FreeNowCalled => ~Live' /\ heap' = {} /\ mutInit' = {} /\ condInit' = {}]_vars

\* C9: under fair scheduling, every thread that was blocked in Wait on a condvar
\* when that condvar was broadcast eventually returns from Wait.
C9_BroadcastWakesAll == \A t \in Slots : (t \in bcast) ~> (t \notin bcast)

C9_Witness == bcast = Slots

\* The threads that stop being blocked on a condvar in a step.
Unblocked == {u \in AllThreads : st[u] = "waiting" /\ st'[u] # "waiting"}

SignalStep == \E t \in AllThreads, c \in CondArgs : PrethdSignal(t, c)

BroadStep == \E t \in AllThreads, c \in CondArgs : PrethdBroad(t, c)

\* C10 as stated: a single Signal wakes at most one of the threads blocked on the
\* condvar; every other waiter is still blocked after it.
C10_SignalAtMostOne == [][SignalStep => Cardinality(Unblocked) <= 1]_vars

\* C10 amended: a Signal with a valid index on a condvar with blocked threads
\* wakes at least one of them, it wakes only threads blocked on that condvar, and
\* it changes no mutex; a waiter stops being blocked only in a Signal, a
\* Broadcast or a spurious wake-up.
C10_SignalAtLeastOne ==
    [][/\ \A t \in AllThreads, c \in CondArgs :
             PrethdSignal(t, c) /\ pool # NULL /\ c < obj.clen /\ obj.conds # NULL =>
                 /\ cwait[c] # {} => Unblocked # {}
                 /\ Unblocked \subseteq cwait[c]
                 /\ cwait'[c] = cwait[c] \ Unblocked
                 /\ UNCHANGED <<owner, cs>>
                 /\ ret' = 1
       /\ Unblocked # {} => SignalStep \/ BroadStep \/ \E u \in AllThreads : Spurious(u)]_vars

C10_Witness ==
    \E u, v \in Slots :
        /\ st[u] = "woken"
        /\ st[v] = "waiting"
        /\ u \notin bcast

\* The call op(t, c, m) passes the checks of the wrapper and reaches the pthread call.
ValidWait(c, m) ==
    /\ pool # NULL /\ c < obj.clen /\ m < obj.mlen
    /\ obj.muts # NULL /\ obj.conds # NULL

\* C11: a Wait with valid indices by the holder of mutex m releases m and puts the
\* caller among the threads blocked on condvar c in the same step, so that no
\* state has the mutex released and the caller not yet blocked; and in the state in
\* which Wait returns the caller holds m again.
C11_WaitAtomic ==
    [][/\ \A t \in AllThreads, c \in CondArgs, m \in MutexArgs :
             PrethdWait(t, c, m) /\ ValidWait(c, m) =>
                 /\ owner[m] = t
                 /\ owner'[m] = NoOwner
                 /\ m \notin cs'[t]
                 /\ t \in cwait'[c]
                 /\ st'[t] = "waiting"
       /\ \A t \in AllThreads :
             WaitReturn(t) =>
                 /\ owner'[wm[t]] = t
                 /\ wm[t] \in cs'[t]
                 /\ st'[t] = "run"
                 /\ ret' = 1
       /\ \A t \in AllThreads :
             st'[t] = "waiting" /\ Live' => t \in cwait'[wc'[t]] /\ owner'[wm'[t]] # t]_vars

\* A worker has returned from its Wait holding the mutex while another is still
\* blocked on the condvar with the mutex released.
C11_Witness ==
    \E t, u \in Slots :
        /\ pc[t] = "w_unlock" /\ st[t] = "run"
        /\ owner[0] = t /\ 0 \in cs[t]
        /\ st[u] = "waiting" /\ u \in cwait[0] /\ 0 \notin cs[u]

\* C12: on a constructed pool with mutex count M, Lock and Unlock with an index
\* >= M return false and leave every mutex as it was, and with an index in [0, M)
\* they succeed: the call returns true with the mutex locked by (released by) the
\* caller.
C12_LockBounds ==
    [][\A t \in AllThreads, i \in MutexArgs :
          /\ PrethdLock(t, i) /\ pool # NULL =>
                IF i >= prethd_mutex_size(pool)
                THEN ret' = 0 /\ UNCHANGED <<owner, cs>>
                ELSE ret' = 1 /\ ~crashed' /\ owner'[i] = t
          /\ PrethdUnlock(t, i) /\ pool # NULL =>
                IF i >= prethd_mutex_size(pool)
                THEN ret' = 0 /\ UNCHANGED <<owner, cs>>
                ELSE ret' = 1 /\ ~crashed' /\ owner'[i] = NoOwner]_vars

\* C13: Wait with a condvar index >= the condvar count or a mutex index >= the
\* mutex count, and Signal and Broadcast with a condvar index >= the condvar count,
\* return false in the same step: the caller goes on running, and no mutex owner
\* and no set of blocked threads changes (a failing Wait keeps the caller's mutex
\* locked).
C13_BadIndexFrame ==
    [][/\ \A t \in AllThreads, c \in CondArgs, m \in MutexArgs :
             /\ PrethdWait(t, c, m)
             /\ c >= prethd_cond_size(pool) \/ m >= prethd_mutex_size(pool)
             => /\ ret' = 0
                /\ ~crashed'
                /\ st'[t] = "run"
                /\ UNCHANGED <<owner, cs, cwait, st, wc, wm>>
       /\ \A t \in AllThreads, c \in CondArgs :
             /\ PrethdSignal(t, c) \/ PrethdBroad(t, c)
             /\ c >= prethd_cond_size(pool)
             => /\ ret' = 0
                /\ ~crashed'
                /\ UNCHANGED <<owner, cs, cwait, st, wc, wm>>]_vars

\* A worker is past its Wait on a pool without condvars and still holds the mutex
\* it locked before.
C13_Witness ==
    \E t \in Slots :
        /\ Live /\ obj.clen = 0 /\ obj.mlen >= 1
        /\ pc[t] = "w_unlock" /\ st[t] = "run"
        /\ owner[0] = t /\ 0 \in cs[t]
        /\ ret = 0

\* Everything but the return value.
exceptRet == <<pool, obj, heap, mutInit, condInit, owner, cwait, handles, st, pc, wc, wm,
               cs, func, ji, chk, crashed, req, allRet, failed, joinRet, joinLog, log,
               printing, bcast>>

\* C14: with a NULL pool pointer the three size functions and prethd_all return 0,
\* prethd_join, lock, unlock, wait, signal and broad return false, and prethd_free
\* and prethd_join_free do nothing; each call returns in the same step, starts no
\* thread and changes nothing but the return value.
C14_NullPool ==
    [][pool = NULL =>
          /\ prethd_size(pool) = 0
          /\ prethd_mutex_size(pool) = 0
          /\ prethd_cond_size(pool) = 0
          /\ \A fn \in Funcs, fails \in SUBSET Slots :
                prethd_all(fn, fails) => ret' = 0 /\ UNCHANGED exceptRet
          /\ JoinBegin("m_join") => ret' = 0 /\ UNCHANGED exceptRet
          /\ \A t \in AllThreads, i \in MutexArgs :
                PrethdLock(t, i) \/ PrethdUnlock(t, i) => ret' = 0 /\ UNCHANGED exceptRet
          /\ \A t \in AllThreads, c \in CondArgs, m \in MutexArgs :
                PrethdWait(t, c, m) => ret' = 0 /\ UNCHANGED exceptRet
          /\ \A t \in AllThreads, c \in CondArgs :
                PrethdSignal(t, c) \/ PrethdBroad(t, c) => ret' = 0 /\ UNCHANGED exceptRet
          /\ prethd_free \/ JoinBegin("m_jfree") => UNCHANGED vars]_vars

\* prethd_new returned NULL for a non-zero thread count and a call made with that
\* pointer has returned 0.
C14_Witness ==
    /\ pool = NULL
    /\ pc[MainThread] = "m_nopool"
    /\ req.th >= 1
    /\ ret = 0
    /\ \A t \in Slots : st[t] = "unstarted"
    /\ heap = {}

\* C15: whenever prethd_new has returned NULL, no block it allocated is still
\* allocated and no mutex or condvar it initialised is still initialised; this
\* includes the case where the thread array cannot be allocated after the mutexes
\* and condvars were created.
C15_NoLeakOnFailure ==
    pc[MainThread] = "m_nopool" =>
        /\ pool = NULL
        /\ heap = {}
        /\ mutInit = {}
        /\ condInit = {}

\* The malloc of the thread array failed after mutexes and condvars were created.
C15_Witness ==
    /\ pc[MainThread] = "m_nopool"
    /\ req.lost = {"threads"}
    /\ req.mut = MaxMutexes
    /\ req.cond = MaxConds
    /\ heap = {}

\* A step in which prethd_join (alone or inside prethd_join_free) returns.
JoinReturns == JoinEnd \/ JoinFreeEnd

\* C16: prethd_join calls pthread_join on the slots 0 .. len-1 in index order and
\* goes on to the next slot whether or not an earlier call reported an error; when
\* it returns it has called it on every slot, and its result is true if and only if
\* none of the calls reported an error.
C16_JoinAccumulates ==
    [][/\ JoinSlot /\ ~crashed' =>
             /\ joinLog' = Append(joinLog, ji)
             /\ ji' = ji + 1
             /\ chk' >= chk
             /\ chk' = chk <=> joinErrs' = joinErrs
       /\ JoinReturns =>
             /\ joinLog = [k \in 1 .. obj.len |-> k - 1]
             /\ joinRet' = 1 <=> joinErrs = 0]_vars

\* prethd_join returned false after every one of its pthread_join calls had
\* reported an error: it called it on every slot all the same.
C16_Witness ==
    /\ pc[MainThread] = "m_joined"
    /\ joinRet = 0
    /\ req.th = MaxThreads
    /\ Len(joinLog) = MaxThreads
    /\ joinErrs = MaxThreads

\* The slots whose thread was started.
Started == {t \in Slots : st[t] # "unstarted"}

\* The stage of the pool (spec.md section 8).  A FreeNow on a pool with running
\* threads abandons them and frees the pool in one step: Abandoned is Freed.
Stage ==
    IF pool = NULL THEN "Unconstructed"
    ELSE IF ~Live THEN "Freed"
    ELSE IF Started = {} THEN "Constructed"
    ELSE IF joinRet = 1 THEN "Joined"
    ELSE "Running"

SpecEdges ==
    {<<"Unconstructed", "Constructed">>, <<"Constructed", "Running">>,
     <<"Running", "Joined">>, <<"Running", "Freed">>, <<"Joined", "Freed">>}

C18_ReadmeTerminates ==
    <>[](/\ pc[MainThread] = "m_freed"
         /\ ~Live /\ heap = {} /\ mutInit = {} /\ condInit = {}
         /\ \A t \in Slots : t < req.th => st[t] = "done"
         /\ \A t \in Slots : t < req.th => \E k \in 1 .. Len(log) : log[k] = t
         /\ printing = {})

\* The README.md program has finished with the largest number of threads.
C18_Witness ==
    /\ pc[MainThread] = "m_freed"
    /\ func = "print"
    /\ req.th = MaxThreads
    /\ Len(log) = MaxThreads
    /\ \A t \in Slots : st[t] = "done"
    /\ heap = {}

\* C19: when prethd_all has started fewer threads than the pool has slots,
\* prethd_join_free gets a false result from its join and returns with the pool,
\* its arrays, its mutexes and its condvars still allocated.
C19_PartialNeverFreed ==
    [][JoinFreeReturns /\ allRet # -1 /\ allRet < prethd_size(pool) =>
          /\ joinRet' = 0
          /\ Live'
          /\ UNCHANGED <<heap, mutInit, condInit>>]_vars

\* A Signal or Broadcast with a valid index on a condvar nobody is blocked on.
WakeNobody ==
    \E c \in CondArgs :
        /\ pool # NULL /\ c < obj.clen /\ obj.conds # NULL
        /\ cwait[c] = {}
        /\ \E t \in AllThreads : PrethdSignal(t, c) \/ PrethdBroad(t, c)

\* C20 as stated: a Signal or Broadcast on a condvar with no blocked thread returns
\* true and changes nothing else, and a thread that blocks in Wait afterwards stops
\* being blocked only in a later Signal or Broadcast.
C20_WakeupsNotRemembered ==
    [][/\ WakeNobody => ret' = 1 /\ UNCHANGED exceptRet
       /\ Unblocked # {} => SignalStep \/ BroadStep]_vars

\* C20 amended: as above, but a blocked thread may also stop being blocked in a
\* spurious wake-up; in no case is it the earlier Signal or Broadcast that wakes it:
\* a Wait with valid indices by the holder of the mutex always blocks.
C20_WakeupsNotRememberedSpurious ==
    [][/\ WakeNobody => ret' = 1 /\ UNCHANGED exceptRet
       /\ \A t \in AllThreads, c \in CondArgs, m \in MutexArgs :
             m \in cs[t] /\ ValidWait(c, m) /\ PrethdWait(t, c, m) =>
                 st'[t] = "waiting" /\ UNCHANGED ret
       /\ Unblocked # {} =>
             \/ SignalStep /\ ~WakeNobody
             \/ BroadStep /\ ~WakeNobody
             \/ \E u \in AllThreads : Spurious(u)]_vars

\* Main has signalled or broadcast a condvar of a pool none of whose threads is
\* started yet, and the call returned true.
C20_Witness ==
    /\ Live
    /\ pc[MainThread] = "m_new"
    /\ obj.clen >= 1 /\ obj.conds # NULL
    /\ cwait[0] = {}
    /\ ret = 1
    /\ \A t \in Slots : st[t] = "unstarted"
====
